---- MODULE Spec2Model ----
(***************************************************************************)
(* Model of the smart-tax-filer receipt pipeline:                          *)
(*   agent.py  process_receipt  - coerces the agent's result into a        *)
(*                                ReceiptData record (pass-through, JSON   *)
(*                                text, regex extraction, mapping)         *)
(*   app.py    save_to_csv and the "Analyze & Save Record" handler         *)
(*                                                                         *)
(* Python strings are sequences of one-character strings.  None is the     *)
(* one-element sequence <<"None">>, whose element is no character, so it   *)
(* differs from every string.  A float is <<mantissa, exponent>> standing  *)
(* for mantissa / 10^exponent, normalised (no trailing zero in the         *)
(* fraction), so that two floats are equal exactly when their values are.  *)
(*                                                                         *)
(* A local of the code that is read more than once is a parameter of a     *)
(* helper operator (named <function>_<step>), so that it is computed once. *)
(***************************************************************************)
EXTENDS Integers, Sequences, FiniteSets, TLC

VARIABLES output, outcome, pc, db, session, returned, clock

vars == <<output, outcome, pc, db, session, returned, clock>>

(***************************************************************************)
(* Characters and character classes of the regular expressions             *)
(***************************************************************************)
NL == "\n"

TAB == "\t"

None == <<"None">>

\* \s of Python's re, restricted to the characters that occur in the inputs
Whitespace == {" ", NL, TAB}

\* \d
Digits == {"0", "1", "2", "3", "4", "5", "6", "7", "8", "9"}

\* [\d,]
DigitsComma == Digits \cup {","}

\* [:\*\s]
LabelSep == {":", "*"} \cup Whitespace

UpperCase == <<"A","B","C","D","E","F","G","H","I","J","K","L","M",
               "N","O","P","Q","R","S","T","U","V","W","X","Y","Z">>

LowerCase == <<"a","b","c","d","e","f","g","h","i","j","k","l","m",
               "n","o","p","q","r","s","t","u","v","w","x","y","z">>

\* case folding used by re.IGNORECASE
ToLower == [c \in {UpperCase[i] : i \in 1..26} |->
              LowerCase[CHOOSE i \in 1..26 : UpperCase[i] = c]]

Lower(c) == IF c \in DOMAIN ToLower THEN ToLower[c] ELSE c

DigitVal(c) == CHOOSE n \in 0..9 : <<"0","1","2","3","4","5","6","7","8","9">>[n + 1] = c

(***************************************************************************)
(* Python string methods                                                   *)
(***************************************************************************)
Min(S) == CHOOSE x \in S : \A y \in S : x <= y

Max(S) == CHOOSE x \in S : \A y \in S : x >= y

\* first index >= i whose character is not in C (Len(s)+1 when none): a greedy C*
SpanIn(s, i, C) ==
  IF i > Len(s) THEN i
  ELSE CHOOSE j \in i..(Len(s) + 1) :
         /\ j = Len(s) + 1 \/ s[j] \notin C
         /\ \A k \in i..(j - 1) : s[k] \in C

\* first index >= i whose character is in C (Len(s)+1 when none): a greedy [^C]*
SpanNotIn(s, i, C) ==
  IF i > Len(s) THEN i
  ELSE CHOOSE j \in i..(Len(s) + 1) :
         /\ j = Len(s) + 1 \/ s[j] \in C
         /\ \A k \in i..(j - 1) : s[k] \notin C

\* last index <= i whose character is not in C (0 when none)
SpanBack(s, i, C) ==
  IF i < 1 THEN i
  ELSE i - (CHOOSE d \in 0..i :
              /\ d = i \/ s[i - d] \notin C
              /\ \A k \in (i - d + 1)..i : s[k] \in C)

\* s[a..b) as Python's s[a:b] with 1-based a and exclusive b
Slice(s, a, b) == SubSeq(s, a, b - 1)

CharAt(s, i) == IF i >= 1 /\ i <= Len(s) THEN s[i] ELSE ""

strip_between(s, a, b) == IF a > b THEN <<>> ELSE SubSeq(s, a, b)

\* str.strip(chars)
strip_chars(s, C) == strip_between(s, SpanIn(s, 1, C), SpanBack(s, Len(s), C))

\* str.strip()
strip(s) == strip_chars(s, Whitespace)

\* s[:n]
Prefix(s, n) == SubSeq(s, 1, IF Len(s) < n THEN Len(s) ELSE n)

\* str.replace(c, '')
Remove(s, c) == SelectSeq(s, LAMBDA x : x # c)

StartsWith(s, p) == Len(s) >= Len(p) /\ SubSeq(s, 1, Len(p)) = p

EndsWith(s, p) == Len(s) >= Len(p) /\ SubSeq(s, Len(s) - Len(p) + 1, Len(s)) = p

Bold == <<"*", "*">>

\* the second alternative of ^\*\*|\*\*$ on s, the scan being at index from:
\* a ** that ends s, or that stands just before the newline that ends s
sub_bold_tail(s, from) ==
  IF EndsWith(s, Bold) /\ Len(s) - 1 >= from THEN Slice(s, from, Len(s) - 1)
  ELSE IF EndsWith(s, Bold \o <<NL>>) /\ Len(s) - 2 >= from
       THEN Slice(s, from, Len(s) - 2) \o <<NL>>
  ELSE Slice(s, from, Len(s) + 1)

\* a variant: only the leading ** is removed
sub_bold_leading(s) == IF StartsWith(s, Bold) THEN SubSeq(s, 3, Len(s)) ELSE s

\* re.sub(r'^\*\*|\*\*$', '', s): one leading ** and one trailing ** are
\* removed; the two matches do not overlap
sub_bold(s) == sub_bold_tail(s, IF StartsWith(s, Bold) THEN 3 ELSE 1)

\* the character that index i of s becomes under re.sub(r'\n{k,}', r, s), for
\* an r of at most k characters: a newline of a run of at least k newlines
\* becomes the character of r at its place in the run, or nothing
sub_newlines_at(s, i, k, r, before, after) ==
  IF s[i] # NL \/ after - before - 1 < k THEN s[i]
  ELSE IF i - before <= Len(r) THEN r[i - before]
  ELSE ""

\* re.sub(r'\n{k,}', r, s)
sub_newlines(s, k, r) ==
  SelectSeq([i \in 1..Len(s) |->
               sub_newlines_at(s, i, k, r, SpanBack(s, i, {NL}), SpanIn(s, i, {NL}))],
            LAMBDA x : x # "")

(***************************************************************************)
(* float(): the strings handed to it hold digits and dots only             *)
(***************************************************************************)
RECURSIVE DigitsToNat(_, _)
\* the number written by the digits of s, left to right, after acc
DigitsToNat(s, acc) ==
  IF s = <<>> THEN acc ELSE DigitsToNat(Tail(s), acc * 10 + DigitVal(Head(s)))

RECURSIVE NormFloat(_, _)
NormFloat(m, e) == IF e > 0 /\ m % 10 = 0 THEN NormFloat(m \div 10, e - 1) ELSE <<m, e>>

\* the index after \d*\.?\d* matched from the start of t, the digits ending at a
DecimalEnd(t, a) == IF CharAt(t, a) = "." THEN SpanIn(t, a + 1, Digits) ELSE a

\* whether float(t) succeeds: digits with at most one dot and at least one digit
IsDecimal(t) ==
  /\ DecimalEnd(t, SpanIn(t, 1, Digits)) = Len(t) + 1
  /\ \E i \in 1..Len(t) : t[i] \in Digits

\* float(t) for a t with IsDecimal(t)
DecimalValue(t) ==
  NormFloat(DigitsToNat(Remove(t, "."), 0),
            Len(t) - Min({Len(t), SpanIn(t, 1, Digits)}))

Zero == <<0, 0>>

(***************************************************************************)
(* re.search: the match at the leftmost start, each quantifier greedy      *)
(***************************************************************************)
NoMatch == [found |-> FALSE, start |-> 0, group |-> <<>>]

Match(i, g) == [found |-> TRUE, start |-> i, group |-> g]

\* ([\d,]+\.?\d*) from j, its [\d,]+ ending at k
AmountGroup(s, i, j, k) ==
  IF k > j THEN Match(i, Slice(s, j, DecimalEnd(s, k))) ELSE NoMatch

\* \s*([\d,]+\.?\d*) after the $ at i, the \s* ending at j
AmountAfter(s, i, j) == AmountGroup(s, i, j, SpanIn(s, j, DigitsComma))

\* \$\s*([\d,]+\.?\d*) tried at start i
AmountAt(s, i) ==
  IF s[i] # "$" THEN NoMatch ELSE AmountAfter(s, i, SpanIn(s, i + 1, Whitespace))

search_amount(s, starts) == IF starts = {} THEN NoMatch ELSE AmountAt(s, Min(starts))

\* re.search(r'\$\s*([\d,]+\.?\d*)', output)
amount_match(s) ==
  search_amount(s, {i \in 1..Len(s) : s[i] = "$" /\ AmountAt(s, i).found})

\* whether label (in lower case) is written at s[i..], in any letter case
LabelAt(s, i, label) ==
  /\ i + Len(label) - 1 <= Len(s)
  /\ \A k \in 1..Len(label) : Lower(s[i + k - 1]) = label[k]

\* ([^\n\-]+) from g: the rest of the line up to a hyphen
ValueEnd(s, g) == SpanNotIn(s, g, {NL, "-"})

\* (?:\n[^-]+)* after a first line that ends at eol: when the next line does
\* not begin with a hyphen, everything up to the next hyphen
BlockRest(s, eol) ==
  IF eol + 1 <= Len(s) /\ s[eol + 1] # "-" THEN SpanNotIn(s, eol + 1, {"-"}) ELSE eol

\* ([^\n]+(?:\n[^-]+)*) from g
BlockEnd(s, g) == BlockRest(s, SpanNotIn(s, g, {NL}))

\* the group from g
GroupFrom(s, p, g, multi) ==
  Match(p, Slice(s, g, IF multi THEN BlockEnd(s, g) ELSE ValueEnd(s, g)))

\* the group starts at the last of the indices cand where it can start
TailGroup(s, p, cand, multi) ==
  IF cand = {} THEN NoMatch ELSE GroupFrom(s, p, Max(cand), multi)

\* the separator run p..r-1 is greedy and gives characters back until the
\* group can start: on a character of p+1..r that the group accepts
TailRun(s, p, r, multi) ==
  TailGroup(s, p,
            {j \in (p + 1)..r :
               j <= Len(s) /\ s[j] \notin (IF multi THEN {NL} ELSE {NL, "-"})},
            multi)

\* [:\*\s]+(group) after a label that ends just before p
TailAt(s, p, multi) == TailRun(s, p, SpanIn(s, p, LabelSep), multi)

\* whether (?:l1|l2|...)[:\*\s]+(group) matches at start i with label number k
AltMatches(s, i, labels, k, multi) ==
  LabelAt(s, i, labels[k]) /\ TailAt(s, i + Len(labels[k]), multi).found

\* the match at start i: that of the first alternative that matches
AltPick(s, i, labels, ks, multi) ==
  IF ks = {} THEN NoMatch
  ELSE Match(i, TailAt(s, i + Len(labels[Min(ks)]), multi).group)

\* (?:l1|l2|...)[:\*\s]+(group) tried at start i: the alternatives in order
AltAt(s, i, labels, multi) ==
  AltPick(s, i, labels, {k \in 1..Len(labels) : AltMatches(s, i, labels, k, multi)}, multi)

search_label(s, labels, multi, starts) ==
  IF starts = {} THEN NoMatch ELSE AltAt(s, Min(starts), labels, multi)

\* a variant: the labels tried one after the other, each over the whole text
label_search_priority(s, labels, multi) ==
  search_label(s, labels, multi,
               {i \in 1..Len(s) :
                  /\ \E k \in 1..Len(labels) : AltMatches(s, i, labels, k, multi)
                  /\ \A j \in 1..Len(s), k \in 1..Len(labels) :
                       AltMatches(s, j, labels, k, multi)
                         => \E h \in 1..k : AltMatches(s, i, labels, h, multi)})

\* re.search(r'(?:l1|l2|...)[:\*\s]+(group)', output, re.IGNORECASE)
label_search(s, labels, multi) ==
  search_label(s, labels, multi,
               {i \in 1..Len(s) :
                  \E k \in 1..Len(labels) : AltMatches(s, i, labels, k, multi)})

(***************************************************************************)
(* Python values: [t |-> type name, v |-> value]                           *)
(***************************************************************************)
PyStr(s) == [t |-> "str", v |-> s]

PyInt(n) == [t |-> "int", v |-> n]

PyFloat(f) == [t |-> "float", v |-> f]

PyBool(b) == [t |-> "bool", v |-> b]

PyNone == [t |-> "NoneType", v |-> None]

PyList(l) == [t |-> "list", v |-> l]

PyDict(d) == [t |-> "dict", v |-> d]

\* an Optional[str] attribute as a Python value
PyOpt(x) == IF x = None THEN PyNone ELSE PyStr(x)

EmptyDict == <<>>

\* d[key] = val
DictSet(d, key, val) ==
  [x \in DOMAIN d \cup {key} |-> IF x = key THEN val ELSE d[x]]

Return(value) == [kind |-> "return", value |-> value]

\* an exception of class error; detail.what tells the raise statements apart
Raise(error, what) == [kind |-> "raise", error |-> error, detail |-> [what |-> what]]

(***************************************************************************)
(* class ReceiptData(BaseModel)                                            *)
(***************************************************************************)
K_amount == <<"a","m","o","u","n","t">>

K_category == <<"c","a","t","e","g","o","r","y">>

K_merchant == <<"m","e","r","c","h","a","n","t">>

K_date == <<"d","a","t","e">>

K_description == <<"d","e","s","c","r","i","p","t","i","o","n">>

K_audit_reasoning == <<"a","u","d","i","t","_","r","e","a","s","o","n","i","n","g">>

\* amount: float.  An int, a float or a bool is taken as a number, a str
\* when it writes a number.
FloatOk(x) ==
  \/ x.t \in {"int", "float", "bool"}
  \/ x.t = "str" /\ IsDecimal(x.v)

FloatOf(x) ==
  CASE x.t = "int" -> <<x.v, 0>>
    [] x.t = "float" -> x.v
    [] x.t = "bool" -> IF x.v THEN <<1, 0>> ELSE Zero
    [] OTHER -> DecimalValue(x.v)

Invalid == <<"invalid">>

\* the value of an Optional[str] = None field; Invalid when it is no str
OptField(d, key) ==
  IF key \notin DOMAIN d THEN None
  ELSE IF d[key].t = "NoneType" THEN None
  ELSE IF d[key].t = "str" THEN d[key].v
  ELSE Invalid

\* the validation of the six fields of the mapping d
ReceiptData_fields(d, opt) ==
  IF /\ K_amount \in DOMAIN d /\ FloatOk(d[K_amount])
     /\ K_category \in DOMAIN d /\ d[K_category].t = "str"
     /\ \A k \in DOMAIN opt : opt[k] # Invalid
  THEN Return([amount |-> FloatOf(d[K_amount]),
               category |-> d[K_category].v,
               merchant |-> opt[K_merchant],
               date |-> opt[K_date],
               description |-> opt[K_description],
               audit_reasoning |-> opt[K_audit_reasoning]])
  ELSE Raise("ValidationError", <<"R","e","c","e","i","p","t","D","a","t","a">>)

\* ReceiptData(**x): x must be a mapping; amount and category are required,
\* the four others default to None, other keys are ignored
ReceiptData(x) ==
  IF x.t # "dict" THEN Raise("TypeError", <<"m","a","p","p","i","n","g">>)
  ELSE ReceiptData_fields(x.v,
         [k \in {K_merchant, K_date, K_description, K_audit_reasoning}
            |-> OptField(x.v, k)])

(***************************************************************************)
(* json.loads (the decoder of the standard library, strict mode)           *)
(***************************************************************************)
JsonWs == {" ", TAB, NL}

Fail == [ok |-> FALSE, val |-> <<>>, end |-> 0]

Ok(val, end) == [ok |-> TRUE, val |-> val, end |-> end]

\* whether index k of the string that starts at i is escaped: an odd number
\* of backslashes of the string stands right before it
Escaped(s, i, k) == ((k - 1) - Max({i - 1, SpanBack(s, k - 1, {"\\"})})) % 2 = 1

\* what index k of the string i..close-1 adds to its value
StringChar(s, i, close, k) ==
  IF k < i \/ k >= close THEN ""
  ELSE IF ~Escaped(s, i, k) THEN (IF s[k] = "\\" THEN "" ELSE s[k])
  ELSE IF s[k] = "n" THEN NL
  ELSE IF s[k] = "t" THEN TAB
  ELSE s[k]

\* a control character is refused; of the escapes, \" \\ \/ \n \t are read
\* (the texts hold no other)
scanstring_body(s, i, close) ==
  IF \E k \in i..(close - 1) :
       \/ s[k] \in {NL, TAB}
       \/ Escaped(s, i, k) /\ s[k] \notin {"\"", "\\", "/", "n", "t"}
  THEN Fail
  ELSE Ok(SelectSeq([k \in 1..Len(s) |-> StringChar(s, i, close, k)],
                    LAMBDA x : x # ""),
          close + 1)

scanstring_close(s, i, closes) ==
  IF closes = {} THEN Fail ELSE scanstring_body(s, i, Min(closes))

\* py_scanstring: the string whose opening quote is just before i, up to the
\* first quote that is not escaped
scanstring(s, i) ==
  scanstring_close(s, i, {j \in i..Len(s) : s[j] = "\"" /\ ~Escaped(s, i, j)})

RECURSIVE Pow10(_)
Pow10(n) == IF n = 0 THEN 1 ELSE 10 * Pow10(n - 1)

\* the first digit of the exponent that may follow at f
ExpDigits(s, f) == IF CharAt(s, f + 1) \in {"-", "+"} THEN f + 2 ELSE f + 1

\* float(integer + frac + exp): mant / 10^scale
number_float(mant, scale, end) ==
  IF scale >= 0 THEN Ok(PyFloat(NormFloat(mant, scale)), end)
  ELSE Ok(PyFloat(<<mant * Pow10(-scale), 0>>), end)

\* the number i..x-1: sign at i..a-1, integer a..b-1, fraction b..f-1,
\* exponent f..x-1
number_value(s, i, a, b, f, x) ==
  IF b = a THEN Fail
  ELSE IF f = b /\ x = f
       THEN Ok(PyInt((IF a > i THEN -1 ELSE 1) * DigitsToNat(Slice(s, a, b), 0)), b)
  ELSE number_float(
         (IF a > i THEN -1 ELSE 1) * DigitsToNat(Slice(s, a, b) \o Slice(s, b + 1, f), 0),
         (IF f > b THEN f - b - 1 ELSE 0)
           - (IF x > f
              THEN (IF CharAt(s, f + 1) = "-" THEN -1 ELSE 1)
                     * DigitsToNat(Slice(s, ExpDigits(s, f), x), 0)
              ELSE 0),
         x)

\* ([eE][-+]?\d+)?
number_exp(s, i, a, b, f) ==
  number_value(s, i, a, b, f,
               IF CharAt(s, f) \in {"e", "E"} /\ CharAt(s, ExpDigits(s, f)) \in Digits
               THEN SpanIn(s, ExpDigits(s, f), Digits) ELSE f)

\* (\.\d+)?
number_frac(s, i, a, b) ==
  number_exp(s, i, a, b,
             IF CharAt(s, b) = "." /\ CharAt(s, b + 1) \in Digits
             THEN SpanIn(s, b + 1, Digits) ELSE b)

\* (?:0|[1-9]\d*)
number_int(s, i, a) ==
  number_frac(s, i, a, IF CharAt(s, a) = "0" THEN a + 1 ELSE SpanIn(s, a, Digits))

\* NUMBER_RE = (-?(?:0|[1-9]\d*))(\.\d+)?([eE][-+]?\d+)? matched at i
match_number(s, i) == number_int(s, i, IF CharAt(s, i) = "-" THEN i + 1 ELSE i)

LiteralAt(s, i, word) == i + Len(word) - 1 <= Len(s) /\ Slice(s, i, i + Len(word)) = word

RECURSIVE scan_once(_, _)
RECURSIVE JSONObject(_, _, _)
RECURSIVE JSONArray(_, _, _)

\* after a comma: the next key must follow
object_more(s, pairs, more) ==
  IF CharAt(s, more) = "\"" THEN JSONObject(s, more, pairs) ELSE Fail

\* after a member: } ends the object, a comma goes on
object_next(s, pairs, next) ==
  IF CharAt(s, next) = "}" THEN Ok(PyDict(pairs), next + 1)
  ELSE IF CharAt(s, next) = "," THEN object_more(s, pairs, SpanIn(s, next + 1, JsonWs))
  ELSE Fail

object_value(s, pairs, key, val) ==
  IF ~val.ok THEN Fail
  ELSE object_next(s, DictSet(pairs, key.val, val.val), SpanIn(s, val.end, JsonWs))

object_colon(s, pairs, key, colon) ==
  IF CharAt(s, colon) # ":" THEN Fail
  ELSE object_value(s, pairs, key, scan_once(s, SpanIn(s, colon + 1, JsonWs)))

object_key(s, pairs, key) ==
  IF ~key.ok THEN Fail ELSE object_colon(s, pairs, key, SpanIn(s, key.end, JsonWs))

\* the members of an object from the opening quote of a key at i, after pairs
JSONObject(s, i, pairs) == object_key(s, pairs, scanstring(s, i + 1))

array_next(s, values, next) ==
  IF CharAt(s, next) = "]" THEN Ok(PyList(values), next + 1)
  ELSE IF CharAt(s, next) = "," THEN JSONArray(s, SpanIn(s, next + 1, JsonWs), values)
  ELSE Fail

array_value(s, values, val) ==
  IF ~val.ok THEN Fail
  ELSE array_next(s, Append(values, val.val), SpanIn(s, val.end, JsonWs))

\* the elements of an array from the start of a value at i, after values
JSONArray(s, i, values) == array_value(s, values, scan_once(s, i))

scan_string(str) == IF str.ok THEN Ok(PyStr(str.val), str.end) ELSE Fail

\* { at i-1, the first character that is no whitespace at j
scan_object(s, j) ==
  IF CharAt(s, j) = "}" THEN Ok(PyDict(EmptyDict), j + 1)
  ELSE IF CharAt(s, j) = "\"" THEN JSONObject(s, j, EmptyDict)
  ELSE Fail

\* [ at i-1, the first character that is no whitespace at j
scan_array(s, j) ==
  IF CharAt(s, j) = "]" THEN Ok(PyList(<<>>), j + 1) ELSE JSONArray(s, j, <<>>)

scan_number(s, i, num) ==
  IF num.ok THEN num
  ELSE IF LiteralAt(s, i, <<"N","a","N">>) THEN Ok(PyFloat(<<"n","a","n">>), i + 3)
  ELSE IF LiteralAt(s, i, <<"I","n","f","i","n","i","t","y">>) THEN Ok(PyFloat(<<"i","n","f">>), i + 8)
  ELSE IF LiteralAt(s, i, <<"-","I","n","f","i","n","i","t","y">>) THEN Ok(PyFloat(<<"-","i","n","f">>), i + 9)
  ELSE Fail

\* the JSON value that starts at i
scan_once(s, i) ==
  IF CharAt(s, i) = "" THEN Fail
  ELSE IF CharAt(s, i) = "\"" THEN scan_string(scanstring(s, i + 1))
  ELSE IF CharAt(s, i) = "{" THEN scan_object(s, SpanIn(s, i + 1, JsonWs))
  ELSE IF CharAt(s, i) = "[" THEN scan_array(s, SpanIn(s, i + 1, JsonWs))
  ELSE IF LiteralAt(s, i, <<"n","u","l","l">>) THEN Ok(PyNone, i + 4)
  ELSE IF LiteralAt(s, i, <<"t","r","u","e">>) THEN Ok(PyBool(TRUE), i + 4)
  ELSE IF LiteralAt(s, i, <<"f","a","l","s","e">>) THEN Ok(PyBool(FALSE), i + 5)
  ELSE scan_number(s, i, match_number(s, i))

\* nothing but whitespace may follow the value
decode(s, val) ==
  IF val.ok /\ SpanIn(s, val.end, JsonWs) = Len(s) + 1 THEN val ELSE Fail

\* json.loads(s): one value, whitespace around it allowed; not ok stands for
\* json.JSONDecodeError
json_loads(s) == decode(s, scan_once(s, SpanIn(s, 1, JsonWs)))

(***************************************************************************)
(* process_receipt: the handling of result.output                          *)
(***************************************************************************)
Unknown == <<"U","n","k","n","o","w","n">>

CategoryLabels == <<<<"c","a","t","e","g","o","r","y">>, <<"c","a","t","e","g","o","r","y">>>>

MerchantLabels == <<<<"m","e","r","c","h","a","n","t">>, <<"m","e","r","c","h","a","n","t">>>>

DateLabels == <<<<"d","a","t","e">>, <<"d","a","t","e">>>>

DescriptionLabels == <<<<"d","e","s","c","r","i","p","t","i","o","n">>, <<"d","e","s","c","r","i","p","t","i","o","n">>>>

ReasoningLabels == <<<<"a","u","d","i","t"," ","r","e","a","s","o","n","i","n","g">>, <<"r","e","a","s","o","n","i","n","g">>, <<"j","u","s","t","i","f","i","c","a","t","i","o","n">>, <<"r","a","t","i","o","n","a","l","e">>>>

DescriptionLimit == 100

OriginalLimit == 500

\* match.group(1).strip().strip('*').strip() if match else default
group_value(m, default) ==
  IF m.found THEN strip(strip_chars(strip(m.group), {"*"})) ELSE default

\* a truthy str: neither None nor empty
Truthy(value) == value # None /\ value # <<>>

\* re.sub(r'^\*\*|\*\*$', '', value).strip()
clean(value) == strip(sub_bold(value))

\* if value: value = re.sub(r'^\*\*|\*\*$', '', value).strip()
clean_value(value) == IF Truthy(value) THEN clean(value) ELSE value

\* if description: ... description = re.sub(r'\n+', ' ', description).strip()
clean_description(description) ==
  IF Truthy(description)
  THEN strip(sub_newlines(clean(description), 1, <<" ">>))
  ELSE description

\* if audit_reasoning: ... re.sub(r'\n{3,}', '\n\n', audit_reasoning).strip()
clean_reasoning(audit_reasoning) ==
  IF Truthy(audit_reasoning)
  THEN strip(sub_newlines(clean(audit_reasoning), 3, <<NL, NL>>))
  ELSE audit_reasoning

\* a variant: audit_reasoning stays unset
reasoning_unset(audit_reasoning, text) == audit_reasoning

\* if not audit_reasoning: audit_reasoning = output.strip()
reasoning_or_text(audit_reasoning, text) ==
  IF Truthy(audit_reasoning) THEN audit_reasoning ELSE strip(text)

float_of(digits) ==
  IF IsDecimal(digits) THEN [ok |-> TRUE, val |-> DecimalValue(digits)]
  ELSE [ok |-> FALSE, val |-> Zero]

amount_of(m) ==
  IF m.found THEN float_of(Remove(m.group, ",")) ELSE [ok |-> TRUE, val |-> Zero]

\* amount = float(amount_match.group(1).replace(',', '')) if amount_match else 0.0
\* (ok is FALSE when float() raises ValueError)
extract_amount(text) == amount_of(amount_match(text))

extract_category(text) ==
  clean_value(group_value(label_search(text, CategoryLabels, FALSE), Unknown))

extract_merchant(text) ==
  clean_value(group_value(label_search(text, MerchantLabels, FALSE), None))

extract_date(text) ==
  clean_value(group_value(label_search(text, DateLabels, FALSE), None))

extract_description(text) ==
  clean_description(group_value(label_search(text, DescriptionLabels, TRUE), None))

extract_reasoning(text) ==
  clean_reasoning(
    reasoning_or_text(group_value(label_search(text, ReasoningLabels, TRUE), None), text))

\* except Exception as e: raise ValueError(f"... {description[:100]} ...")
recovery_failure(text, amount, category, merchant, date, description, e) ==
  IF description = None THEN Raise("TypeError", <<"s","u","b","s","c","r","i","p","t">>)
  ELSE [kind |-> "raise", error |-> "ValueError", detail |->
          [what |-> <<"r","e","c","o","v","e","r","y">>, amount |-> amount, category |-> category,
           merchant |-> merchant, date |-> date,
           description |-> Prefix(description, DescriptionLimit),
           error |-> e.error,
           original |-> Prefix(text, OriginalLimit)]]

heuristic_built(text, amount, category, merchant, date, description, built) ==
  IF built.kind = "return" THEN built
  ELSE recovery_failure(text, amount, category, merchant, date, description, built)

\* try: return ReceiptData(amount=amount, category=category, ...)
heuristic_build(text, amount, category, merchant, date, description, audit_reasoning) ==
  heuristic_built(text, amount, category, merchant, date, description,
    ReceiptData(PyDict(
      [k \in {K_amount, K_category, K_merchant, K_date, K_description,
              K_audit_reasoning} |->
         CASE k = K_amount -> PyFloat(amount)
           [] k = K_category -> PyStr(category)
           [] k = K_merchant -> PyOpt(merchant)
           [] k = K_date -> PyOpt(date)
           [] k = K_description -> PyOpt(description)
           [] OTHER -> PyOpt(audit_reasoning)])))

heuristic_fields(text, amount) ==
  IF ~amount.ok THEN Raise("ValueError", <<"f","l","o","a","t">>)
  ELSE heuristic_build(text, amount.val, extract_category(text), extract_merchant(text),
                       extract_date(text), extract_description(text),
                       extract_reasoning(text))

\* the except json.JSONDecodeError branch: the fields are scraped from the text
heuristic(text) == heuristic_fields(text, extract_amount(text))

from_str_parsed(text, data_dict) ==
  IF data_dict.ok THEN ReceiptData(data_dict.val) ELSE heuristic(text)

\* a variant: the text is not tried as JSON
from_str_heuristic(text) == heuristic(text)

\* the isinstance(output, str) branch
from_str(text) == from_str_parsed(text, json_loads(text))

\* a variant: no branch for an answer that is a ReceiptData already
process_receipt_unchecked(exists, result_output) ==
  IF ~exists THEN Raise("FileNotFoundError", <<"f","i","l","e">>)
  ELSE IF result_output.t = "str" THEN from_str(result_output.v)
  ELSE IF result_output.t = "dict" THEN ReceiptData(result_output)
  ELSE Raise("TypeError", <<"u","n","e","x","p","e","c","t","e","d">>)

\* process_receipt(file_path) with the agent answering result_output
process_receipt(exists, result_output) ==
  IF ~exists THEN Raise("FileNotFoundError", <<"f","i","l","e">>)
  ELSE IF result_output.t = "ReceiptData" THEN Return(result_output.v)
  ELSE IF result_output.t = "str" THEN from_str(result_output.v)
  ELSE IF result_output.t = "dict" THEN ReceiptData(result_output)
  ELSE Raise("TypeError", <<"u","n","e","x","p","e","c","t","e","d">>)

(***************************************************************************)
(* app.py: the record store and the "Analyze & Save Record" handler        *)
(***************************************************************************)
Columns == <<"amount", "category", "merchant", "date", "description",
             "audit_reasoning", "processed_at">>

NoFile == [exists |-> FALSE, header |-> <<>>, rows |-> <<>>]

\* data.model_dump() with record['processed_at'] set
Row(data, now) ==
  [amount |-> data.amount, category |-> data.category, merchant |-> data.merchant,
   date |-> data.date, description |-> data.description,
   audit_reasoning |-> data.audit_reasoning, processed_at |-> now]

\* a variant: DB_FILE is written anew at every call
save_to_csv_overwrite(file, data, now) ==
  [exists |-> TRUE, header |-> Columns, rows |-> <<Row(data, now)>>]

\* save_to_csv(data): DB_FILE after the call
save_to_csv(file, data, now) ==
  IF ~file.exists
  THEN [exists |-> TRUE, header |-> Columns, rows |-> <<Row(data, now)>>]
  ELSE [file EXCEPT !.rows = Append(@, Row(data, now))]

NoOutcome == [kind |-> "none"]

NoResult == [t |-> "unset", v |-> None]

(***************************************************************************)
(* The agent's answers (result.output) the specifications draw from        *)
(***************************************************************************)
RECURSIVE Flatten(_)
\* the text written by a sequence of fragments
Flatten(q) == IF q = <<>> THEN <<>> ELSE Head(q) \o Flatten(Tail(q))

\* the sequences of at most n elements of F
Seqs(F, n) == UNION {[1..k -> F] : k \in 0..n}

\* the texts of at most n fragments of F
Texts(F, n) == {Flatten(q) : q \in Seqs(F, n)}

StrOutputs(T) == {PyStr(text) : text \in T}

\* answers that are ReceiptData already: the string fields hold text that the
\* str branch would read as markup, labels or amounts
MaxRecordFrags == 2

RecordFrags == {<<"*","*">>, <<" ">>, <<"x">>, <<NL>>, <<"$","5">>, <<"D","a","t","e",":"," ","1">>}

RecordOutput(amount, text, set) ==
  [t |-> "ReceiptData",
   v |-> [amount |-> amount,
          category |-> text,
          merchant |-> IF "merchant" \in set THEN text ELSE None,
          date |-> IF "date" \in set THEN text ELSE None,
          description |-> IF "description" \in set THEN text ELSE None,
          audit_reasoning |-> IF "audit_reasoning" \in set THEN text ELSE None]]

\* answers that are JSON objects: a member is a key, the Python value it
\* stands for and the JSON text of that value
MaxMembers == 3

Member(key, val, text) == [key |-> key, val |-> val, text |-> text]

JsonMembers ==
  {Member(K_amount, PyFloat(<<125, 1>>), <<"1","2",".","5","0">>),
   Member(K_amount, PyStr(<<"7">>), <<"\"","7","\"">>),
   Member(K_category, PyStr(<<"F","o","o","d">>), <<"\"","F","o","o","d","\"">>),
   Member(K_merchant, PyStr(<<"J","\"","s">>), <<"\"","J","\\","\"","s","\"">>),
   Member(K_description, PyStr(<<"D","a","t","e",":"," ","1"," ","$","9">>), <<"\"","D","a","t","e",":"," ","1"," ","$","9","\"">>),
   Member(<<"x">>, PyList(<<PyInt(1), PyDict(DictSet(EmptyDict, <<"a">>, PyNone))>>),
          <<"[","1",","," ","{","\"","a","\"",":"," ","n","u","l","l","}","]">>)}

\* "key": value
MemberText(m, style) ==
  <<"\"">> \o m.key \o <<"\"">> \o (IF style = "compact" THEN <<":">> ELSE <<":"," ">>) \o m.text

RECURSIVE MembersText(_, _)
MembersText(q, style) ==
  IF q = <<>> THEN <<>>
  ELSE IF Len(q) = 1 THEN MemberText(q[1], style)
  ELSE MemberText(q[1], style) \o (IF style = "compact" THEN <<",">> ELSE <<",",NL," ">>)
         \o MembersText(Tail(q), style)

\* the object of the members q, written in one line or one member a line
ObjectText(q, style) ==
  IF style = "compact" THEN <<"{">> \o MembersText(q, style) \o <<"}">>
  ELSE <<"{",NL," ">> \o MembersText(q, style) \o <<NL,"}",NL>>

RECURSIVE ObjectMapping(_)
\* the mapping the members q stand for: the last of equal keys stays
ObjectMapping(q) ==
  IF q = <<>> THEN EmptyDict
  ELSE DictSet(ObjectMapping(SubSeq(q, 1, Len(q) - 1)), q[Len(q)].key, q[Len(q)].val)

JsonCases ==
  {[text |-> ObjectText(q, style), mapping |-> ObjectMapping(q)] :
     q \in Seqs(JsonMembers, MaxMembers), style \in {"compact", "pretty"}}

\* free text without labels: markup, blanks, words, digits, a dollar sign
MaxPlainFrags == 3

PlainFrags == {<<"*","*">>, <<" ">>, <<NL>>, <<NL,NL,NL>>, <<"x">>, <<"5">>, <<"$">>, <<",">>, <<"D","a","t","e">>}

\* two labelled lines
LineValues == {<<"O","f","f","i","c","e"," ","S","u","p","p","l","i","e","s">>, <<"2","0","2","4","-","0","1","-","0","5">>, <<"F","o","o","d">>, <<"0","1","/","0","5","/","2","0","2","4">>,
               <<"J","a","n"," ","5">>, <<"x">>}

LinesText(category, date, order) ==
  IF order = 1 THEN <<"C","a","t","e","g","o","r","y",":"," ">> \o category \o <<NL,"D","a","t","e",":"," ">> \o date
  ELSE <<"D","a","t","e",":"," ">> \o date \o <<NL,"C","a","t","e","g","o","r","y",":"," ">> \o category

\* amounts
MaxAmountFrags == 4

AmountFrags == {<<"A","m","o","u","n","t",":"," ">>, <<"$">>, <<"$","1">>, <<",","2","3","4">>, <<".","5","6">>, <<",">>, <<".">>, <<" ">>, <<"5">>}

\* marked-up values, bare or after a label
MaxBoldFrags == 4

BoldFrags == {<<"*","*">>, <<"*">>, <<" ">>, <<"x">>}

BoldLabels == {<<>>, <<"C","a","t","e","g","o","r","y",":"," ">>, <<"*","*","M","e","r","c","h","a","n","t",":","*","*"," ">>, <<"D","a","t","e",":"," ">>,
               <<"D","e","s","c","r","i","p","t","i","o","n",":"," ">>, <<"R","e","a","s","o","n","i","n","g",":"," ">>}

\* two lines, a label or a plain word at the start of each
LineStarts == {<<"A","u","d","i","t"," ","R","e","a","s","o","n","i","n","g">>, <<"R","e","a","s","o","n","i","n","g">>, <<"J","u","s","t","i","f","i","c","a","t","i","o","n">>, <<"R","a","t","i","o","n","a","l","e">>,
               <<"r","a","t","i","o","n","a","l","e">>, <<"N","o","t","e">>}

ReasoningValues == {<<"r">>, <<"a"," ","b">>}

TwoLines(l1, v1, l2, v2) == l1 \o <<":"," ">> \o v1 \o <<NL>> \o l2 \o <<":"," ">> \o v2

\* a description of up to MaxLines lines, after the label or after a plain word
MaxLines == 3

DescriptionLines == {<<"a">>, <<"b"," ","c">>, <<"b","-","c">>, <<"-"," ","d">>}

DescriptionStarts == {<<"D","e","s","c","r","i","p","t","i","o","n",":"," ">>, <<"N","o","t","e",":"," ">>}

RECURSIVE JoinLines(_, _)
\* the lines q with sep between them
JoinLines(q, sep) ==
  IF q = <<>> THEN <<>>
  ELSE IF Len(q) = 1 THEN q[1]
  ELSE q[1] \o sep \o JoinLines(Tail(q), sep)

DescriptionCases ==
  {[start |-> start, lines |-> q] :
     start \in DescriptionStarts, q \in Seqs(DescriptionLines, MaxLines) \ {<<>>}}

\* the answers of the sessions of the app: a record, a JSON text, free text
\* with an amount, and three that make process_receipt raise
AppOutputs ==
  {RecordOutput(<<125, 1>>, <<"M","e","a","l","s">>, {"merchant"}),
   PyStr(<<"{","\"","a","m","o","u","n","t","\"",":"," ","3",","," ","\"","c","a","t","e","g","o","r","y","\"",":"," ","\"","T","r","a","v","e","l","\"","}">>),
   PyStr(<<"C","a","t","e","g","o","r","y",":"," ","O","f","f","i","c","e",NL,"T","o","t","a","l"," ","$","4">>),
   PyStr(<<"$",",">>),
   PyStr(<<"{","}">>),
   PyInt(42)}

(***************************************************************************)
(* The state machine                                                       *)
(*   output    the agent's answer of the last call                         *)
(*   outcome   what the last process_receipt call returned or raised       *)
(*   pc        "ready" before the call; "done", "nofile" after it; the     *)
(*             handler leaves "saved" or "error"                           *)
(*   db        DB_FILE (tax_records.csv)                                   *)
(*   session   st.session_state['last_result']                             *)
(*   returned  history: the records process_receipt returned to the        *)
(*             handler, in order                                           *)
(*   clock     datetime.now()                                              *)
(***************************************************************************)
MaxRows == 3

MaxClock == 2

Start(outputs) ==
  /\ output \in outputs
  /\ outcome = NoOutcome
  /\ pc = "ready"
  /\ db = NoFile
  /\ session = NoResult
  /\ returned = <<>>
  /\ clock = 0

\* one call of process_receipt, the agent answering output; the file at
\* file_path may be missing
ProcessReceipt ==
  /\ pc = "ready"
  /\ \E exists \in BOOLEAN :
       /\ outcome' = process_receipt(exists, output)
       /\ pc' = IF exists THEN "done" ELSE "nofile"
  /\ UNCHANGED <<output, db, session, returned, clock>>

\* the handler after process_receipt: a record is saved and kept as
\* last_result; an exception ends the script run before save_to_csv
AnalyzeAndSave_result(answer, result) ==
  /\ output' = answer
  /\ outcome' = result
  /\ IF result.kind = "return"
     THEN /\ db' = save_to_csv(db, result.value, clock)
          /\ session' = [t |-> "ReceiptData", v |-> result.value]
          /\ returned' = Append(returned, result.value)
          /\ pc' = "saved"
     ELSE /\ UNCHANGED <<db, session, returned>>
          /\ pc' = "error"

\* the "Analyze & Save Record" button: the upload is written to temp_path
\* and process_receipt runs on it
AnalyzeAndSave(answer) ==
  /\ Len(db.rows) < MaxRows
  /\ AnalyzeAndSave_result(answer, process_receipt(TRUE, answer))
  /\ UNCHANGED clock

\* time passes between two clicks
Tick ==
  /\ clock < MaxClock
  /\ clock' = clock + 1
  /\ UNCHANGED <<output, outcome, pc, db, session, returned>>

Next ==
  \/ \E answer \in AppOutputs : AnalyzeAndSave(answer)
  \/ Tick

\* the app before the first click: no answer yet
Init == Start({PyNone})

Spec == Init /\ [][Next]_vars

\* process_receipt on an answer that is a ReceiptData already
SpecRecord ==
  /\ Start({RecordOutput(amount, text, set) :
              amount \in {Zero, <<123456, 2>>},
              text \in Texts(RecordFrags, MaxRecordFrags),
              set \in SUBSET {"merchant", "date", "description", "audit_reasoning"}})
  /\ [][ProcessReceipt]_vars

\* process_receipt on a JSON text
SpecJson == Start({PyStr(c.text) : c \in JsonCases}) /\ [][ProcessReceipt]_vars

\* process_receipt on free text without labels
SpecPlain == Start(StrOutputs(Texts(PlainFrags, MaxPlainFrags))) /\ [][ProcessReceipt]_vars

\* process_receipt on a Category line and a Date line
SpecLines ==
  /\ Start({PyStr(LinesText(category, date, order)) :
              category \in LineValues, date \in LineValues, order \in {1, 2}})
  /\ [][ProcessReceipt]_vars

\* process_receipt on text with dollar signs, digits and separators
SpecAmount == Start(StrOutputs(Texts(AmountFrags, MaxAmountFrags))) /\ [][ProcessReceipt]_vars

\* process_receipt on marked-up values, bare or after a label
SpecBold ==
  /\ Start({PyStr(label \o value) :
              label \in BoldLabels, value \in Texts(BoldFrags, MaxBoldFrags)}
             \cup {PyStr(<<"*","*","M","e","r","c","h","a","n","t",":","*","*"," ","*","*","J","o","e","'","s"," ","D","e","l","i","*","*">>)})
  /\ [][ProcessReceipt]_vars

\* process_receipt on two lines that start with a reasoning label or a word
SpecReasoning ==
  /\ Start({PyStr(TwoLines(l1, v1, l2, v2)) :
              l1 \in LineStarts, l2 \in LineStarts,
              v1 \in ReasoningValues, v2 \in ReasoningValues})
  /\ [][ProcessReceipt]_vars

\* process_receipt on descriptions of several lines
SpecDescription ==
  /\ Start({PyStr(c.start \o JoinLines(c.lines, <<NL>>)) : c \in DescriptionCases})
  /\ [][ProcessReceipt]_vars

(***************************************************************************)
(* The claims                                                              *)
(***************************************************************************)
\* the six fields of a record
IsRecord(value, amount, category, merchant, date, description, audit_reasoning) ==
  /\ value.amount = amount
  /\ value.category = category
  /\ value.merchant = merchant
  /\ value.date = date
  /\ value.description = description
  /\ value.audit_reasoning = audit_reasoning

\* C1: an answer that is a ReceiptData record already is returned as it is,
\* each of its six fields unchanged: its text is neither parsed as JSON nor
\* searched for labels, amounts or markup.
C1_RecordReturnedUnchanged ==
  pc = "done" /\ output.t = "ReceiptData"
    => /\ outcome.kind = "return"
       /\ IsRecord(outcome.value, output.v.amount, output.v.category, output.v.merchant,
                   output.v.date, output.v.description, output.v.audit_reasoning)

\* a record whose fields hold a bold marker and a dollar amount was returned
C1_Witness ==
  /\ pc = "done"
  /\ output.t = "ReceiptData"
  /\ output.v.category = <<"*","*","$","5">>
  /\ output.v.audit_reasoning = <<"*","*","$","5">>
  /\ outcome.kind = "return"
  /\ outcome.value.category = <<"*","*","$","5">>

\* the record part of a row of DB_FILE
RowRecord(row) ==
  [amount |-> row.amount, category |-> row.category, merchant |-> row.merchant,
   date |-> row.date, description |-> row.description,
   audit_reasoning |-> row.audit_reasoning]

\* the rows of DB_FILE are the records process_receipt returned, in order
C7_RowsAreReturned ==
  /\ db.exists <=> returned # <<>>
  /\ db.exists => db.header = Columns
  /\ Len(db.rows) = Len(returned)
  /\ \A i \in 1..Len(returned) : RowRecord(db.rows[i]) = returned[i]

\* a click whose call returned appends one row and keeps the rows before it;
\* a click whose call raised, and the passing of time, keep DB_FILE
C7_Click ==
  IF clock' = clock /\ outcome'.kind = "return"
  THEN /\ Len(db'.rows) = Len(db.rows) + 1
       /\ SubSeq(db'.rows, 1, Len(db.rows)) = db.rows
       /\ RowRecord(db'.rows[Len(db'.rows)]) = outcome'.value
       /\ db'.rows[Len(db'.rows)].processed_at = clock
  ELSE db' = db

\* C7: after any sequence of "Analyze & Save Record" clicks DB_FILE holds one
\* row per click whose process_receipt call returned a record, in the order
\* of the clicks: such a click appends exactly one row and leaves the earlier
\* rows as they are, and a click whose call raises leaves DB_FILE unchanged.
C7_OneRowPerReturnedRecord == []C7_RowsAreReturned /\ [][C7_Click]_vars

\* two records are stored and the click after them raised
C7_Witness ==
  /\ pc = "error"
  /\ outcome.kind = "raise"
  /\ Len(db.rows) = 2
  /\ db.rows[1].category # db.rows[2].category
  /\ Len(returned) = 2

\* the value a mapping holds for an optional key
MappingOpt(mapping, key) == IF key \in DOMAIN mapping THEN mapping[key].v ELSE None

\* the number a mapping's amount stands for
MappingAmount(mapping) ==
  IF mapping[K_amount].t = "str" THEN DecimalValue(mapping[K_amount].v)
  ELSE mapping[K_amount].v

\* C2: a str answer that is a JSON object with the keys amount and category
\* (the optional keys present or not) gives the record built field by field
\* from the mapping it writes, the outcome of handing over that mapping itself;
\* labels and amounts inside its strings are not searched for.
C2_JsonTextAsMapping ==
  pc = "done" =>
    \A c \in JsonCases :
      output = PyStr(c.text) =>
        /\ outcome = process_receipt(TRUE, PyDict(c.mapping))
        /\ {K_amount, K_category} \subseteq DOMAIN c.mapping =>
             /\ outcome.kind = "return"
             /\ IsRecord(outcome.value, MappingAmount(c.mapping), c.mapping[K_category].v,
                         MappingOpt(c.mapping, K_merchant), MappingOpt(c.mapping, K_date),
                         MappingOpt(c.mapping, K_description),
                         MappingOpt(c.mapping, K_audit_reasoning))

\* an object whose description holds a label and a dollar amount gave the
\* record of its members
C2_Witness ==
  /\ pc = "done"
  /\ output = PyStr(<<"{","\"","a","m","o","u","n","t","\"",":","1","2",".","5","0",",","\"","c","a","t","e","g","o","r","y","\"",":","\"","F","o","o","d","\"",",","\"","d","e","s","c","r","i","p","t","i","o","n","\"",":","\"","D","a","t","e",":"," ","1"," ","$","9","\"","}">>)
  /\ outcome.kind = "return"
  /\ IsRecord(outcome.value, <<125, 1>>, <<"F","o","o","d">>, None, None, <<"D","a","t","e",":"," ","1"," ","$","9">>, None)

LowerText(s) == [k \in 1..Len(s) |-> Lower(s[k])]

\* word occurs in s, in any letter case
Mentions(s, word) ==
  \E i \in 1..Len(s) :
    i + Len(word) - 1 <= Len(s) /\ LowerText(SubSeq(s, i, i + Len(word) - 1)) = word

LabelWords == {<<"c","a","t","e","g","o","r","y">>, <<"m","e","r","c","h","a","n","t">>, <<"d","a","t","e">>, <<"d","e","s","c","r","i","p","t","i","o","n">>, <<"r","e","a","s","o","n","i","n","g">>,
               <<"j","u","s","t","i","f","i","c","a","t","i","o","n">>, <<"r","a","t","i","o","n","a","l","e">>}

\* none of the labels occurs in s ("Audit Reasoning" holds "Reasoning")
NoLabel(s) == \A word \in LabelWords : ~Mentions(s, word)

\* no dollar sign of s is followed, after optional whitespace, by a digit or
\* a comma
NoDollarToken(s) ==
  \A i \in 1..Len(s) : s[i] = "$" => CharAt(s, SpanIn(s, i + 1, Whitespace)) \notin DigitsComma

DropBoldEnd(s) == IF EndsWith(s, Bold) THEN SubSeq(s, 1, Len(s) - 2) ELSE s

\* s without one ** at its start and one at its end
DropBold(s) == DropBoldEnd(IF StartsWith(s, Bold) THEN SubSeq(s, 3, Len(s)) ELSE s)

\* s with every newline after the second of a run left out
TwoNewlines(s) ==
  SelectSeq([k \in 1..Len(s) |->
               IF s[k] = NL /\ k > 2 /\ CharAt(s, k - 1) = NL /\ CharAt(s, k - 2) = NL
               THEN "" ELSE s[k]],
            LAMBDA x : x # "")

C4_LabelValueUpToEndOfLine ==
  pc = "done" =>
    \A category \in LineValues, date \in LineValues, order \in {1, 2} :
      output = PyStr(LinesText(category, date, order)) =>
        /\ outcome.kind = "return"
        /\ outcome.value.amount = Zero
        /\ outcome.value.category = category
        /\ outcome.value.date = date

\* the end of the digits and commas after the dollar sign at i
TokenDigitsEnd(s, i) == SpanIn(s, SpanIn(s, i + 1, Whitespace), DigitsComma)

\* the dollar sign at i starts a numeric token
TokenAt(s, i) ==
  /\ s[i] = "$"
  /\ \E k \in SpanIn(s, i + 1, Whitespace)..(TokenDigitsEnd(s, i) - 1) : s[k] \in Digits

\* the number the token at i writes, its separators left out
TokenValue(s, i) ==
  DecimalValue(Remove(Slice(s, SpanIn(s, i + 1, Whitespace),
                            DecimalEnd(s, TokenDigitsEnd(s, i))), ","))

FirstTokenValue(s, tokens) == IF tokens = {} THEN Zero ELSE TokenValue(s, Min(tokens))

\* C5: a text that fails JSON parsing gives as amount the number of its first
\* dollar-sign token without the thousands separators, and 0.0 when it has
\* no such token; later tokens do not count.
C5_AmountOfFirstDollarToken ==
  pc = "done" /\ ~json_loads(output.v).ok
    => /\ outcome.kind = "return"
       /\ outcome.value.amount =
            FirstTokenValue(output.v, {i \in 1..Len(output.v) : TokenAt(output.v, i)})

StringFields == {"category", "merchant", "date", "description", "audit_reasoning"}

\* value neither begins nor ends with whitespace
Trimmed(value) == value = None \/ strip(value) = value

\* value neither begins nor ends with **
Unmarked(value) == value = None \/ (~StartsWith(value, Bold) /\ ~EndsWith(value, Bold))

\* no ** of s is followed, after optional whitespace, by another *
SingleMarkers(s) ==
  \A i \in 1..(Len(s) - 1) :
    SubSeq(s, i, i + 1) = Bold => CharAt(s, SpanIn(s, i + 2, Whitespace)) # "*"

\* the original statement of C6: no string field of a record of the heuristic
\* extraction begins or ends with ** or with whitespace
C6_NoMarkerLeft ==
  pc = "done" /\ ~json_loads(output.v).ok /\ outcome.kind = "return"
    => \A f \in StringFields : Trimmed(outcome.value[f]) /\ Unmarked(outcome.value[f])

\* C6 (amended): the heuristic extraction removes one leading and one
\* trailing ** from each string field and trims it again: no final value
\* begins or ends with whitespace, and none begins or ends with ** when no **
\* of the text is followed, after optional whitespace, by another *;
\* "**Merchant:** **Joe's Deli**" gives merchant "Joe's Deli".
C6_OneMarkerRemoved ==
  pc = "done" /\ ~json_loads(output.v).ok /\ outcome.kind = "return"
    => /\ \A f \in StringFields :
            /\ Trimmed(outcome.value[f])
            /\ SingleMarkers(output.v) => Unmarked(outcome.value[f])
       /\ output.v = <<"*","*","M","e","r","c","h","a","n","t",":","*","*"," ","*","*","J","o","e","'","s"," ","D","e","l","i","*","*">> => outcome.value.merchant = <<"J","o","e","'","s"," ","D","e","l","i">>

\* values in bold markers gave the text between them
C6_Witness ==
  /\ pc = "done"
  /\ output = PyStr(<<"D","e","s","c","r","i","p","t","i","o","n",":"," ","x"," ","*","*">>)
  /\ outcome.kind = "return"
  /\ outcome.value.description = <<"x">>
  /\ outcome.value.audit_reasoning = <<"D","e","s","c","r","i","p","t","i","o","n",":"," ","x">>

\* the place of a line's label in the list of the reasoning labels, 0 for a
\* plain word
Priority(start) ==
  IF \E k \in 1..Len(ReasoningLabels) : ReasoningLabels[k] = LowerText(start)
  THEN CHOOSE k \in 1..Len(ReasoningLabels) : ReasoningLabels[k] = LowerText(start)
  ELSE 0

DescriptionLinesKept(lines) ==
  SubSeq(lines, 1,
         Min({k \in 2..Len(lines) : Head(lines[k]) = "-"} \cup {Len(lines) + 1}) - 1)

\* C9: the description runs from the value of the "Description:" label over
\* the following lines up to the first of them that begins with a hyphen; a
\* hyphen inside a line does not end it; its newlines become single spaces;
\* without the label the description is null.
C9_DescriptionUpToBulletLine ==
  pc = "done" =>
    \A c \in DescriptionCases :
      output = PyStr(c.start \o JoinLines(c.lines, <<NL>>)) =>
        /\ outcome.kind = "return"
        /\ outcome.value.description =
             IF c.start = <<"D","e","s","c","r","i","p","t","i","o","n",":"," ">>
             THEN JoinLines(DescriptionLinesKept(c.lines), <<" ">>)
             ELSE None

\* C10: a str answer that fails JSON parsing gives a record or the
\* recovery-failure ValueError (with the amount, category, merchant, date,
\* description[:100], the construction error and the first 500 characters of
\* the text); no other error leaves the heuristic extraction.
C10_RecordOrRecoveryFailure ==
  pc = "done" /\ ~json_loads(output.v).ok
    => \/ outcome.kind = "return"
       \/ /\ outcome.kind = "raise"
          /\ outcome.error = "ValueError"
          /\ outcome.detail.what = <<"r","e","c","o","v","e","r","y">>
          /\ outcome.detail.original = Prefix(output.v, OriginalLimit)

====
